---- MODULE Spec2Model ----
(***************************************************************************)
(* A model of cleanmarl/mappo_mpe.py: the MAPPO training script.           *)
(*                                                                         *)
(* The script is one sequential loop.  The model follows it component by   *)
(* component, each with its own specification over the script's variables: *)
(*   SpecRollout  the rollout collection loop and the episode statistics   *)
(*   SpecGAE      the GAE backward pass over one filled slot column        *)
(*   SpecNorm     the first update of the return normalizer (cold start)   *)
(*   SpecVLoss    the value loss of one minibatch                          *)
(*   Spec         the iteration loop: annealing, GAE denormalization,      *)
(*                epochs, minibatches, normalizer updates, KL stop,        *)
(*                diagnostics                                              *)
(* The policy network, the optimizer and the environment are opaque: what  *)
(* they return is drawn from small sets.  Floating point numbers are exact *)
(* rationals <<numerator, denominator>> in lowest terms.                   *)
(***************************************************************************)
EXTENDS Integers, Sequences, FiniteSets, TLC

(***************************************************************************)
(* Bounds of the model.                                                    *)
(***************************************************************************)
MaxEnvs == 2
MaxSteps == 2
MaxIterations == 2
MaxEnvSteps == 4
GaeSteps == 3
MaxBatch == 2
MaxEpochs == 2
MaxUpdates == 4
ShuffleBatch == 5
VLossBatch == 2
ColdBatch == 3

(***************************************************************************)
(* Exact rational arithmetic, standing for the script's float arithmetic.  *)
(***************************************************************************)
Abs(n) == IF n < 0 THEN -n ELSE n

RECURSIVE GCD(_, _)
GCD(a, b) == IF b = 0 THEN a ELSE GCD(b, a % b)

Norm(n, d) ==
    LET s == IF d < 0 THEN -1 ELSE 1
        g == GCD(Abs(n), Abs(d))
    IN  <<(s * n) \div g, (s * d) \div g>>

R(n) == <<n, 1>>
Zero == <<0, 1>>
One == <<1, 1>>
\* sums go over the least common denominator, which keeps the integers small
LCM(a, b) == (a \div GCD(a, b)) * b
RAdd(a, b) ==
    LET d == LCM(a[2], b[2])
    IN  Norm(a[1] * (d \div a[2]) + b[1] * (d \div b[2]), d)
RNeg(a) == <<-a[1], a[2]>>
RSub(a, b) == RAdd(a, RNeg(b))
RMul(a, b) == Norm(a[1] * b[1], a[2] * b[2])
RDiv(a, b) == Norm(a[1] * b[2], a[2] * b[1])
RLe(a, b) == a[1] * b[2] <= b[1] * a[2]
RLt(a, b) == a[1] * b[2] < b[1] * a[2]
RAbs(a) == <<Abs(a[1]), a[2]>>
RMax(a, b) == IF RLe(a, b) THEN b ELSE a
RMin(a, b) == IF RLe(a, b) THEN a ELSE b

RECURSIVE RPow(_, _)
RPow(a, k) == IF k = 0 THEN One ELSE RMul(a, RPow(a, k - 1))

RECURSIVE RSum(_)
RSum(s) == IF s = <<>> THEN Zero ELSE RAdd(Head(s), RSum(Tail(s)))

\* tensor.mean() of a non-empty 1-D tensor
RMean(s) == RDiv(RSum(s), R(Len(s)))

RECURSIVE ISum(_)
ISum(s) == IF s = <<>> THEN 0 ELSE Head(s) + ISum(Tail(s))

\* all sequences of length n over S
SeqsOf(S, n) == [1..n -> S]

(***************************************************************************)
(* Value loss (lines 189-192, 333-348).                                    *)
(***************************************************************************)
\* torch.clamp(x, lo, hi)
ClampSwapped(x, lo, hi) == RMax(RMin(x, lo), hi)
Clamp(x, lo, hi) == RMin(RMax(x, lo), hi)

\* huber_loss(e, d): a * e ** 2 / 2 + b * d * (abs(e) - d / 2)
huber_loss(e, d) ==
    LET a == IF RLe(RAbs(e), d) THEN One ELSE Zero
        b == IF RLt(d, RAbs(e)) THEN One ELSE Zero
    IN  RAdd(RDiv(RMul(a, RMul(e, e)), R(2)),
             RMul(RMul(b, d), RSub(RAbs(e), RDiv(d, R(2)))))

\* the elementwise loss of an error, by args.use_huber_loss
ErrorLoss(e, a) ==
    IF a.use_huber_loss THEN huber_loss(e, a.huber_delta)
    ELSE RMul(<<1, 2>>, RMul(e, e))

v_loss_unclipped(nv, tv, a) == ErrorLoss(RSub(nv, tv), a)

v_clipped(nv, tv, a) ==
    RAdd(tv, Clamp(RSub(nv, tv), RNeg(a.clip_coef), a.clip_coef))

v_loss_clipped(nv, tv, a) == ErrorLoss(RSub(v_clipped(nv, tv, a), tv), a)

\* v_loss of a minibatch: nv and tv are the minibatch's new values and targets
ValueLoss(nv, tv, a) ==
    IF a.clip_vloss
    THEN RMean([i \in 1..Len(nv) |->
                  RMax(v_loss_unclipped(nv[i], tv[i], a),
                       v_loss_clipped(nv[i], tv[i], a))])
    ELSE RMean([i \in 1..Len(nv) |-> v_loss_unclipped(nv[i], tv[i], a)])

\* (v_loss_clipped > v_loss_unclipped).float().mean().item()
ValueClipFrac(nv, tv, a) ==
    RMean([i \in 1..Len(nv) |->
             IF RLt(v_loss_unclipped(nv[i], tv[i], a),
                    v_loss_clipped(nv[i], tv[i], a))
             THEN One ELSE Zero])

(***************************************************************************)
(* GAE backward pass (lines 266-277).  A rollout g holds the buffers       *)
(* rewards, values, dones as [step][slot] tables (steps and slots counted  *)
(* from 1), next_value and next_done per slot, gamma and gae_lambda.       *)
(***************************************************************************)
\* nextnonterminal of step t, slot s (lines 269-273)
NextNonTerminalOwnStep(g, t, s) ==
    RSub(One, R(IF t = Len(g.rewards) THEN g.next_done[s] ELSE g.dones[t][s]))
NextNonTerminal(g, t, s) ==
    RSub(One, R(IF t = Len(g.rewards) THEN g.next_done[s] ELSE g.dones[t + 1][s]))

\* nextvalues of step t, slot s (lines 271, 274)
NextValues(g, t, s) ==
    IF t = Len(g.rewards) THEN g.next_value[s] ELSE g.values[t + 1][s]

\* delta (line 275)
Delta(g, t, s) ==
    RSub(RAdd(g.rewards[t][s],
              RMul(RMul(g.gamma, NextValues(g, t, s)), NextNonTerminal(g, t, s))),
         g.values[t][s])

\* lastgaelam after step t (line 276), from lastgaelam after step t + 1
GaeStep(g, t, s, last) ==
    RAdd(Delta(g, t, s),
         RMul(RMul(RMul(g.gamma, g.gae_lambda), NextNonTerminal(g, t, s)), last))

\* the loop of lines 267-276 from step t down: the advantages of steps t..T of
\* slot s; lastgaelam starts at 0
RECURSIVE SlotAdvantages(_, _, _)
SlotAdvantages(g, t, s) ==
    IF t > Len(g.rewards) THEN <<>>
    ELSE LET rest == SlotAdvantages(g, t + 1, s)
             last == IF rest = <<>> THEN Zero ELSE rest[1]
         IN  <<GaeStep(g, t, s, last)>> \o rest

Advantages(g) ==
    LET col == [s \in 1..Len(g.next_done) |-> SlotAdvantages(g, 1, s)]
    IN  [t \in 1..Len(g.rewards) |-> [s \in 1..Len(g.next_done) |-> col[s][t]]]

\* returns = advantages + values (line 277)
Returns(g, adv) ==
    [t \in 1..Len(g.rewards) |->
        [s \in 1..Len(g.next_done) |-> RAdd(adv[t][s], g.values[t][s])]]

(***************************************************************************)
(* Return normalizer (lines 216-222, 319-329).  A normalizer n holds       *)
(* running_mean, running_mean_sq, debiasing_term and the derived mean,     *)
(* mean_sq and var; n.bound says whether the script has bound these names  *)
(* at all (it does so only under args.use_value_normalization).            *)
(***************************************************************************)
\* debiasing_term.clamp(min=1e-5)
DebiasFloor == <<1, 100000>>
\* .clamp(min=1e-2)
VarFloor == <<1, 100>>

\* mean, mean_sq, var from the accumulators (lines 220-222 and 325-327)
Derive(n) ==
    LET m == RDiv(n.running_mean, RMax(n.debiasing_term, DebiasFloor))
        q == RDiv(n.running_mean_sq, RMax(n.debiasing_term, DebiasFloor))
    IN  [n EXCEPT !.mean = m, !.mean_sq = q,
                  !.var = RMax(RSub(q, RMul(m, m)), VarFloor)]

\* lines 217-222
NormalizerInit ==
    Derive([bound |-> TRUE, running_mean |-> Zero, running_mean_sq |-> Zero,
            debiasing_term |-> Zero, mean |-> Zero, mean_sq |-> Zero,
            var |-> Zero])

\* the names are unbound when args.use_value_normalization is False
NormalizerUnbound ==
    [bound |-> FALSE, running_mean |-> Zero, running_mean_sq |-> Zero,
     debiasing_term |-> Zero, mean |-> Zero, mean_sq |-> Zero, var |-> Zero]

\* the update of lines 322-327 with the minibatch's raw returns mb
NormalizerUpdate(n, mb, w) ==
    Derive([n EXCEPT
        !.running_mean = RAdd(RMul(w, n.running_mean),
                              RMul(RSub(One, w), RMean(mb))),
        !.running_mean_sq =
            RAdd(RMul(w, n.running_mean_sq),
                 RMul(RSub(One, w),
                      RMean([i \in 1..Len(mb) |-> RMul(mb[i], mb[i])]))),
        !.debiasing_term = RAdd(RMul(w, n.debiasing_term),
                                RMul(RSub(One, w), One))])

\* A value x / sqrt(rad) is kept as the pair of x and rad: sqrt(var) is not
\* rational.  A raw value x is x / sqrt(1).
Quot(x, rad) == [num |-> x, rad |-> rad]

\* target_values (lines 329, 331)
TargetValues(mb, n, a) ==
    IF a.use_value_normalization
    THEN [i \in 1..Len(mb) |-> Quot(RSub(mb[i], n.mean), n.var)]
    ELSE [i \in 1..Len(mb) |-> Quot(mb[i], One)]

(***************************************************************************)
(* The script's state.                                                     *)
(***************************************************************************)
VARIABLES
    args,               \* the parsed Args, after lines 169-172
    pc,                 \* where the script stands
    iteration, step, global_step,
    lr,                 \* optimizer.param_groups[0]["lr"]
    next_done, dones, reward,
    episode_rewards, episode_lengths,
    summary,            \* the last episode summary handed to the writer
    env_flags,          \* the done flags entering each step of this rollout
    rewards, values, next_value, advantages, returns,
    normalizer,
    denorm,             \* the (mean, var) lines 264-265 read
    b_returns, b_inds, epoch, start, approx_kl,
    processed,          \* the samples this epoch's minibatches have held
    mb_count,           \* minibatches processed in this iteration
    mb_total,           \* minibatches processed in the run
    newvalue, target_values, v_loss, valueclipfracs

ctlVars == <<pc, iteration, step, global_step, lr>>
rolloutVars == <<next_done, dones, reward, episode_rewards, episode_lengths,
                 summary, env_flags>>
gaeVars == <<rewards, values, next_value, advantages, returns>>
trainVars == <<normalizer, denorm, b_returns, b_inds, epoch, start, approx_kl,
               processed, mb_count, mb_total>>
lossVars == <<newvalue, target_values, v_loss, valueclipfracs>>
vars == <<args, ctlVars, rolloutVars, gaeVars, trainVars, lossVars>>

\* target_kl: float = None
None == <<>>

\* class Args (lines 18-89): the fields the training loop reads, at their defaults
ArgsDefault ==
    [use_huber_loss |-> TRUE, huber_delta |-> R(10),
     use_value_normalization |-> TRUE, ewa_weigth |-> <<999999, 1000000>>,
     total_timesteps |-> 100000000, learning_rate |-> <<1, 4000>>,
     num_envs |-> 128, num_steps |-> 25, anneal_lr |-> TRUE,
     gamma |-> <<99, 100>>, gae_lambda |-> <<19, 20>>,
     num_minibatches |-> 1, update_epochs |-> 15,
     clip_coef |-> <<1, 5>>, clip_vloss |-> TRUE, target_kl |-> None,
     batch_size |-> 0, minibatch_size |-> 0, num_iterations |-> 0]

\* lines 170-172 (a.num_envs counts the slots, as after line 169)
Setup(a) ==
    LET bs == a.num_envs * a.num_steps
    IN  [a EXCEPT !.batch_size = bs,
                  !.minibatch_size = bs \div a.num_minibatches,
                  !.num_iterations = a.total_timesteps \div bs]

\* a tensor of n zeros
Zeros(n) == [i \in 1..n |-> 0]

\* the parts of the state a specification does not follow stay as they are here
CtlIdle ==
    /\ iteration = 1 /\ step = 0 /\ global_step = 0
    /\ lr = ArgsDefault.learning_rate
RolloutIdle ==
    /\ next_done = <<>> /\ dones = <<>> /\ reward = <<>>
    /\ episode_rewards = <<>> /\ episode_lengths = <<>>
    /\ summary = <<>> /\ env_flags = <<>>
GaeIdle ==
    /\ rewards = <<>> /\ values = <<>> /\ next_value = <<>>
    /\ advantages = <<>> /\ returns = <<>>
TrainIdle ==
    /\ normalizer = NormalizerUnbound /\ denorm = <<>>
    /\ b_returns = <<>> /\ b_inds = <<>> /\ epoch = 0 /\ start = 0
    /\ approx_kl = Zero /\ processed = <<>> /\ mb_count = 0 /\ mb_total = 0
LossIdle ==
    /\ newvalue = <<>> /\ target_values = <<>> /\ v_loss = Zero
    /\ valueclipfracs = <<>>

(***************************************************************************)
(* SpecVLoss: the value loss of one minibatch (lines 333-348), for every   *)
(* draw of new values, targets, clip coefficient, delta and switches.      *)
(***************************************************************************)
NewValueSet == {R(-12), R(-1), Zero, <<1, 2>>, R(3)}
TargetSet == {R(-1), Zero, <<1, 4>>}
ClipCoefSet == {Zero, <<1, 5>>, One}
HuberDeltaSet == {One, R(10)}

InitVLoss ==
    /\ args \in {[ArgsDefault EXCEPT !.clip_coef = c, !.huber_delta = d,
                                     !.use_huber_loss = h, !.clip_vloss = v,
                                     !.use_value_normalization = FALSE] :
                   c \in ClipCoefSet, d \in HuberDeltaSet,
                   h \in BOOLEAN, v \in BOOLEAN}
    /\ pc = "value_loss"
    /\ newvalue \in SeqsOf(NewValueSet, VLossBatch)
    /\ target_values \in SeqsOf({Quot(x, One) : x \in TargetSet}, VLossBatch)
    /\ v_loss = Zero /\ valueclipfracs = <<>>
    /\ CtlIdle /\ RolloutIdle /\ GaeIdle /\ TrainIdle

\* lines 333-348
ComputeValueLoss ==
    /\ pc = "value_loss"
    /\ LET tv == [i \in 1..Len(target_values) |-> target_values[i].num]
       IN  /\ v_loss' = ValueLoss(newvalue, tv, args)
           /\ valueclipfracs' =
                IF args.clip_vloss
                THEN Append(valueclipfracs, ValueClipFrac(newvalue, tv, args))
                ELSE valueclipfracs
    /\ pc' = "optimizer_step"
    /\ UNCHANGED <<args, iteration, step, global_step, lr, rolloutVars, gaeVars,
                   trainVars, newvalue, target_values>>

NextVLoss == ComputeValueLoss
SpecVLoss == InitVLoss /\ [][NextVLoss]_vars

GaeRewardSet == {R(-1), One}
GaeValueSet == {Zero, <<1, 2>>}
GaeNextValueSet == {Zero, R(2)}
GammaSet == {<<9, 10>>}
LambdaSet == {Zero, <<1, 2>>, One}
\* (mean, var) pairs with a rational sqrt(var)
GaeStatsSet == {<<One, <<9, 4>>>>}

\* torch.sqrt of a rational square
ISqrt(n) == CHOOSE k \in 0..n : k * k = n
RSqrt(q) == <<ISqrt(q[1]), ISqrt(q[2])>>

\* x * torch.sqrt(var) + mean (lines 264-265)
Denormalize(x, n) == RAdd(RMul(x, RSqrt(n.var)), n.mean)

InitGAE ==
    /\ args \in {Setup([ArgsDefault EXCEPT
                          !.num_envs = 1, !.num_steps = GaeSteps,
                          !.total_timesteps = GaeSteps,
                          !.gamma = gm, !.gae_lambda = lm,
                          !.use_value_normalization = vn]) :
                   gm \in GammaSet, lm \in LambdaSet, vn \in BOOLEAN}
    /\ pc = "gae"
    /\ rewards \in SeqsOf(SeqsOf(GaeRewardSet, 1), GaeSteps)
    /\ values \in SeqsOf(SeqsOf(GaeValueSet, 1), GaeSteps)
    /\ dones \in SeqsOf(SeqsOf({0, 1}, 1), GaeSteps)
    /\ next_done \in SeqsOf({0, 1}, 1)
    /\ next_value \in SeqsOf(GaeNextValueSet, 1)
    /\ normalizer \in
         IF args.use_value_normalization
         THEN {[NormalizerInit EXCEPT !.mean = st[1], !.var = st[2]] :
                 st \in GaeStatsSet}
         ELSE {NormalizerUnbound}
    /\ advantages = <<>> /\ returns = <<>>
    /\ CtlIdle /\ LossIdle
    /\ reward = <<>> /\ episode_rewards = <<>> /\ episode_lengths = <<>>
    /\ summary = <<>> /\ env_flags = <<>>
    /\ denorm = <<>> /\ b_returns = <<>> /\ b_inds = <<>> /\ epoch = 0
    /\ start = 0 /\ approx_kl = Zero /\ processed = <<>>
    /\ mb_count = 0 /\ mb_total = 0

\* lines 261-277
ComputeGAE ==
    /\ pc = "gae"
    /\ values' =
         IF args.use_value_normalization
         THEN [t \in 1..Len(values) |->
                 [s \in 1..Len(values[t]) |-> Denormalize(values[t][s], normalizer)]]
         ELSE values
    /\ next_value' =
         IF args.use_value_normalization
         THEN [s \in 1..Len(next_value) |-> Denormalize(next_value[s], normalizer)]
         ELSE next_value
    /\ LET g == [rewards |-> rewards, values |-> values', dones |-> dones,
                 next_value |-> next_value', next_done |-> next_done,
                 gamma |-> args.gamma, gae_lambda |-> args.gae_lambda]
       IN  /\ advantages' = Advantages(g)
           /\ returns' = Returns(g, advantages')
    /\ pc' = "flatten"
    /\ UNCHANGED <<args, iteration, step, global_step, lr, rolloutVars, rewards,
                   trainVars, lossVars>>

NextGAE == ComputeGAE
SpecGAE == InitGAE /\ [][NextGAE]_vars

\* the done flag at the boundary after step k of slot s: done[k+1], or d_T
BoundaryDone(k, s) == IF k = Len(rewards) THEN next_done[s] ELSE dones[k + 1][s]

\* the one-step TD error of step t, from the buffers
TDError(t, s) ==
    RSub(RAdd(rewards[t][s],
              RMul(args.gamma,
                   RMul(IF t = Len(rewards) THEN next_value[s] ELSE values[t + 1][s],
                        R(1 - BoundaryDone(t, s))))),
         values[t][s])

\* the last step of the episode step t belongs to: the first k >= t with a done
\* flag at its boundary, or the last step of the rollout
EpisodeEnd(t, s) ==
    LET ends == {k \in t..Len(rewards) : BoundaryDone(k, s) = 1}
    IN  IF ends = {} THEN Len(rewards)
        ELSE CHOOSE k \in ends : \A j \in ends : k <= j

\* the discounted return from step t: the discounted rewards to the end of the
\* episode, plus the discounted bootstrap value if the episode runs past the rollout
DiscountedReturn(t, s) ==
    LET e == EpisodeEnd(t, s)
        sum == RSum([i \in 1..(e - t + 1) |->
                        RMul(RPow(args.gamma, i - 1), rewards[t + i - 1][s])])
    IN  IF BoundaryDone(e, s) = 1 THEN sum
        ELSE RAdd(sum, RMul(RPow(args.gamma, Len(rewards) - t + 1), next_value[s]))

(***************************************************************************)
(* C3: after the backward pass, with lambda = 0 every advantage is the     *)
(* one-step TD error, and with lambda = 1 every return is the discounted   *)
(* return to the next done boundary, bootstrapped with V_T only when no    *)
(* done flag is met.                                                       *)
(***************************************************************************)
C3_GaeExtremes ==
    pc = "flatten" =>
        \A t \in 1..Len(rewards) : \A s \in 1..Len(next_done) :
            /\ args.gae_lambda = Zero => advantages[t][s] = TDError(t, s)
            /\ args.gae_lambda = One => returns[t][s] = DiscountedReturn(t, s)

\* lambda = 1, an episode ends inside the rollout and another runs past its end
C3_Witness ==
    /\ pc = "flatten"
    /\ args.gae_lambda = One
    /\ dones[2][1] = 1 /\ dones[3][1] = 0 /\ next_done[1] = 0
    /\ next_value[1] # Zero
    /\ returns[1][1] # returns[2][1]

(***************************************************************************)
(* Spec: the iteration loop (lines 204-229 and 261-379).  The rollout is   *)
(* one step here (SpecRollout follows it), and so is the backward pass     *)
(* (SpecGAE follows it): the critic's outputs are opaque and sqrt(var) is  *)
(* irrational in general, so the loop keeps the statistics the             *)
(* denormalization read and draws the returns the pass yields.             *)
(***************************************************************************)
ReturnSet == {R(-1), R(2)}
EwaSet == {Zero, <<1, 2>>}
TargetKlSet == {None, <<1, 100>>}
\* the approx_kl a minibatch may show: below and above the target
KlSet == {<<1, 200>>, <<1, 50>>}

\* the minibatches of one epoch: len(range(0, batch_size, minibatch_size))
MinibatchesPerEpoch(a) ==
    (a.batch_size + a.minibatch_size - 1) \div a.minibatch_size

\* the configurations of the loop
TrainArgs ==
    {a \in {Setup([ArgsDefault EXCEPT
                     !.num_envs = 1, !.num_steps = ns,
                     !.total_timesteps = ni * ns,
                     !.num_minibatches = nm, !.update_epochs = ue,
                     !.use_value_normalization = vw[1], !.ewa_weigth = vw[2],
                     !.target_kl = tk, !.anneal_lr = al]) :
               ns \in 1..MaxBatch, ni \in 1..MaxIterations, nm \in 1..MaxBatch,
               ue \in 1..MaxEpochs, tk \in TargetKlSet, al \in BOOLEAN,
               vw \in {<<FALSE, Zero>>} \cup {<<TRUE, w>> : w \in EwaSet}} :
        /\ a.num_minibatches <= a.batch_size
        /\ a.num_iterations * a.update_epochs * MinibatchesPerEpoch(a) <= MaxUpdates}

\* lines 204-222
Init ==
    /\ args \in TrainArgs
    /\ pc = "anneal"
    /\ iteration = 1 /\ step = 0 /\ global_step = 0
    /\ lr = args.learning_rate
    /\ normalizer = IF args.use_value_normalization
                    THEN NormalizerInit ELSE NormalizerUnbound
    /\ denorm = <<>> /\ b_returns = <<>> /\ b_inds = <<>>
    /\ epoch = 0 /\ start = 0 /\ approx_kl = Zero /\ processed = <<>>
    /\ mb_count = 0 /\ mb_total = 0
    /\ RolloutIdle /\ GaeIdle /\ LossIdle

\* frac (line 227)
AnnealFracOffByOne(it, n) == RSub(One, RDiv(R(it), R(n)))
AnnealFrac(it, n) == RSub(One, RDiv(R(it - 1), R(n)))

\* lines 224-229: the head of an iteration
Anneal ==
    /\ pc = "anneal"
    /\ lr' = IF args.anneal_lr
             THEN RMul(AnnealFrac(iteration, args.num_iterations), args.learning_rate)
             ELSE lr
    /\ pc' = "rollout"
    /\ UNCHANGED <<args, iteration, step, global_step, rolloutVars, gaeVars,
                   trainVars, lossVars>>

\* lines 231-259, as one step: num_steps steps of num_envs slots
CollectRollout ==
    /\ pc = "rollout"
    /\ global_step' = global_step + args.num_steps * args.num_envs
    /\ pc' = "gae"
    /\ UNCHANGED <<args, iteration, step, lr, rolloutVars, gaeVars, trainVars,
                   lossVars>>

\* np.arange(n)
Arange(n) == [i \in 1..n |-> i - 1]

\* lines 261-291: the denormalization reads mean and var, the pass yields the
\* returns, and the index array and the clip fraction lists start afresh
EstimateAdvantages ==
    /\ pc = "gae"
    /\ denorm' = IF args.use_value_normalization
                 THEN <<normalizer.mean, normalizer.var>> ELSE <<>>
    /\ b_returns' \in SeqsOf(ReturnSet, args.batch_size)
    /\ b_inds' = Arange(args.batch_size)
    /\ mb_count' = 0
    /\ valueclipfracs' = <<>>
    /\ epoch' = 0
    /\ pc' = "epoch"
    /\ UNCHANGED <<args, iteration, step, global_step, lr, rolloutVars, gaeVars,
                   normalizer, start, approx_kl, processed, mb_total,
                   newvalue, target_values, v_loss>>

\* the orders np.random.shuffle may leave an index array of n samples in
ShuffleOrders(n) ==
    {[i \in 1..n |-> p[i] - 1] : p \in Permutations(1..n)}

\* lines 292-293: an epoch starts; epoch is the loop variable of line 292,
\* set to 0 when the loop is entered
ShuffleEpoch ==
    /\ pc = "epoch"
    /\ b_inds' \in ShuffleOrders(Len(b_inds))
    /\ start' = 0
    /\ processed' = <<>>
    /\ pc' = "minibatch"
    /\ UNCHANGED <<args, iteration, step, global_step, lr, rolloutVars, gaeVars,
                   normalizer, denorm, b_returns, epoch, approx_kl, mb_count,
                   mb_total, lossVars>>

\* b_inds[start:end] (lines 295-296)
MbIndsOverlap(b, st, size) ==
    SubSeq(b, IF st = 0 THEN 1 ELSE st, IF st + size < Len(b) THEN st + size ELSE Len(b))
MbInds(b, st, size) ==
    SubSeq(b, st + 1, IF st + size < Len(b) THEN st + size ELSE Len(b))

\* b_returns[mb_inds]
Gather(b, inds) == [j \in 1..Len(inds) |-> b[inds[j] + 1]]

\* approx_kl > args.target_kl, under args.target_kl is not None (line 358)
KlExceeds(kl, a) == a.target_kl # None /\ RLt(a.target_kl, kl)

\* where the script goes after a minibatch: line 294 takes the next start, and
\* line 358 is reached only when the range is used up
AfterMinibatchKlBreak(next_start, kl, a) ==
    IF KlExceeds(kl, a) \/ next_start >= a.batch_size THEN "kl_check" ELSE "minibatch"
AfterMinibatch(next_start, kl, a) ==
    IF next_start >= a.batch_size THEN "kl_check" ELSE "minibatch"

\* the statistics line 329 normalizes with: those of after the update
TargetStatsStale(old, new) == old
TargetStats(old, new) == new

\* lines 294-356: one minibatch
Minibatch ==
    /\ pc = "minibatch"
    /\ start < args.batch_size
    /\ LET mb_inds == MbInds(b_inds, start, args.minibatch_size)
           mb == Gather(b_returns, mb_inds)
           updated == IF args.use_value_normalization
                      THEN NormalizerUpdate(normalizer, mb, args.ewa_weigth)
                      ELSE normalizer
       IN  /\ \E kl \in KlSet :
                /\ approx_kl' = kl
                /\ pc' = AfterMinibatch(start + args.minibatch_size, kl, args)
           /\ normalizer' = updated
           /\ target_values' = TargetValues(mb, TargetStats(normalizer, updated), args)
           /\ processed' = processed \o mb_inds
    /\ start' = start + args.minibatch_size
    /\ mb_count' = mb_count + 1
    /\ mb_total' = mb_total + 1
    /\ UNCHANGED <<args, iteration, step, global_step, lr, rolloutVars, gaeVars,
                   denorm, b_returns, b_inds, epoch, newvalue, v_loss,
                   valueclipfracs>>

\* lines 358-359 and the epoch loop of line 292
KlCheck ==
    /\ pc = "kl_check"
    /\ IF KlExceeds(approx_kl, args) \/ epoch + 1 >= args.update_epochs
       THEN pc' = "diagnostics" /\ epoch' = epoch
       ELSE pc' = "epoch" /\ epoch' = epoch + 1
    /\ UNCHANGED <<args, iteration, step, global_step, lr, rolloutVars, gaeVars,
                   normalizer, denorm, b_returns, b_inds, start, approx_kl,
                   processed, mb_count, mb_total, lossVars>>

\* lines 361-379 and the iteration loop of line 224: mean.item() and var.item()
\* raise NameError when the names were never bound
Diagnostics ==
    /\ pc = "diagnostics"
    /\ IF ~normalizer.bound
       THEN pc' = "crashed" /\ UNCHANGED iteration
       ELSE /\ iteration' = iteration + 1
            /\ pc' = IF iteration + 1 > args.num_iterations THEN "done" ELSE "anneal"
    /\ UNCHANGED <<args, step, global_step, lr, rolloutVars, gaeVars,
                   normalizer, denorm, b_returns, b_inds, epoch, start, approx_kl,
                   processed, mb_count, mb_total, lossVars>>

Next ==
    \/ Anneal
    \/ CollectRollout
    \/ EstimateAdvantages
    \/ ShuffleEpoch
    \/ Minibatch
    \/ KlCheck
    \/ Diagnostics

Spec == Init /\ [][Next]_vars

\* the minibatches range(0, batch_size, minibatch_size) has taken once the
\* cursor stands at st
MinibatchesTo(st, a) ==
    IF st >= a.batch_size THEN MinibatchesPerEpoch(a)
    ELSE st \div a.minibatch_size

UpdatePhases == {"epoch", "minibatch", "kl_check", "diagnostics"}

(***************************************************************************)
(* C5: the KL stop acts between epochs.  A further epoch starts only when  *)
(* the last minibatch of the epoch before it kept approx_kl within the     *)
(* target (or no target is set); an epoch once started is never cut short, *)
(* whatever approx_kl its minibatches show; and when the epochs are over,  *)
(* either update_epochs of them ran or the last minibatch's approx_kl      *)
(* exceeded the configured target.                                         *)
(***************************************************************************)
C5_KlStopsBetweenEpochs ==
    /\ (pc = "epoch" /\ epoch > 0) => ~KlExceeds(approx_kl, args)
    /\ pc \in {"minibatch", "kl_check"} =>
          /\ epoch < args.update_epochs
          /\ mb_count = epoch * MinibatchesPerEpoch(args) + MinibatchesTo(start, args)
    /\ pc = "diagnostics" =>
          /\ mb_count = (epoch + 1) * MinibatchesPerEpoch(args)
          /\ epoch + 1 = args.update_epochs \/ KlExceeds(approx_kl, args)
          /\ args.target_kl = None => epoch + 1 = args.update_epochs

\* the first iteration stopped after one of its two epochs on an approx_kl above
\* the target, and the second iteration has come to its first epoch
C5_Witness ==
    /\ iteration = 2 /\ pc = "minibatch" /\ epoch = 0 /\ start = 0
    /\ args.update_epochs = 2 /\ args.target_kl # None
    /\ KlExceeds(approx_kl, args)
    /\ mb_total = MinibatchesPerEpoch(args)

(***************************************************************************)
(* C6: with value normalization off the script never stops on a fatal      *)
(* error.                                                                  *)
(***************************************************************************)
C6_NoFatalErrorWithoutNormalization ==
    ~args.use_value_normalization => pc # "crashed"

(***************************************************************************)
(* C7: with annealing on, from the head of iteration i to its end the      *)
(* learning rate is learning_rate * (1 - (i - 1) / num_iterations): the    *)
(* initial rate in the first iteration, learning_rate / num_iterations in  *)
(* the last.  With annealing off it stays the initial rate.                *)
(***************************************************************************)
C7_LinearAnnealing ==
    /\ (args.anneal_lr /\ pc \in {"rollout", "gae"} \cup UpdatePhases) =>
          /\ lr = RDiv(RMul(args.learning_rate,
                            R(args.num_iterations - (iteration - 1))),
                       R(args.num_iterations))
          /\ iteration = 1 => lr = args.learning_rate
          /\ iteration = args.num_iterations =>
                lr = RDiv(args.learning_rate, R(args.num_iterations))
    /\ ~args.anneal_lr => lr = args.learning_rate

\* a minibatch update of the last of two iterations, at half the initial rate
C7_Witness ==
    /\ args.anneal_lr
    /\ args.num_iterations = 2 /\ iteration = 2
    /\ pc = "minibatch" /\ start > 0
    /\ lr = RDiv(args.learning_rate, R(2))

\* C7 as first stated: the updates of the last iteration run at rate zero
C7_FinalRateIsZero ==
    (args.anneal_lr /\ iteration = args.num_iterations /\ pc = "minibatch") =>
        lr = Zero

\* the raw returns of the minibatch processed last: the last n samples of those
\* this epoch has held
LastMinibatchReturns(held, n) ==
    [j \in 1..n |-> b_returns[held[Len(held) - n + j] + 1]]

\* (mean, var) as the accumulators give them
StatsOf(n) ==
    LET db == IF RLe(n.debiasing_term, DebiasFloor) THEN DebiasFloor
              ELSE n.debiasing_term
        m == RDiv(n.running_mean, db)
        v == RSub(RDiv(n.running_mean_sq, db), RMul(m, m))
    IN  <<m, IF RLe(v, VarFloor) THEN VarFloor ELSE v>>

C9_State ==
    args.use_value_normalization =>
        /\ normalizer.bound
        \* one update per minibatch processed in the run, and no reset
        /\ normalizer.debiasing_term = RSub(One, RPow(args.ewa_weigth, mb_total))
        \* mean and var are those of the accumulators as they stand
        /\ <<normalizer.mean, normalizer.var>> = StatsOf(normalizer)
        \* the denormalization of this iteration read the statistics as they
        \* stood before the iteration's first update
        /\ (pc \in UpdatePhases /\ mb_count = 0) =>
              denorm = <<normalizer.mean, normalizer.var>>
        /\ (pc \in UpdatePhases /\ iteration = 1) => denorm = <<Zero, VarFloor>>
        \* the targets of the last minibatch are normalized with the statistics
        \* that hold its own returns
        /\ (pc \in {"minibatch", "kl_check"} /\ start > 0) =>
              target_values =
                [j \in 1..Len(target_values) |->
                    Quot(RSub(LastMinibatchReturns(processed, Len(target_values))[j],
                              normalizer.mean),
                         normalizer.var)]

C9_Step ==
    args.use_value_normalization =>
        \* a minibatch moves the accumulators by its own raw returns
        /\ mb_total' = mb_total + 1 =>
              LET mb == LastMinibatchReturns(processed', Len(processed') - Len(processed))
                  w == args.ewa_weigth
              IN  /\ Len(mb) > 0
                  /\ normalizer'.running_mean =
                        RAdd(RMul(w, normalizer.running_mean),
                             RMul(RSub(One, w), RMean(mb)))
                  /\ normalizer'.running_mean_sq =
                        RAdd(RMul(w, normalizer.running_mean_sq),
                             RMul(RSub(One, w),
                                  RMean([j \in 1..Len(mb) |-> RMul(mb[j], mb[j])])))
        \* nothing else touches them
        /\ mb_total' = mb_total => normalizer' = normalizer
        \* the denormalization reads them once an iteration, before the epochs
        /\ denorm' # denorm => (pc = "gae" /\ pc' = "epoch")

(***************************************************************************)
(* C9: with value normalization on, the normalizer's accumulators move     *)
(* once per processed minibatch, by that minibatch's raw returns, before   *)
(* its targets are computed; nothing resets them; and the denormalization  *)
(* before the backward pass of an iteration uses the mean and var they     *)
(* give after the last minibatch of the iteration before (those of the     *)
(* zero state in the first iteration).                                     *)
(***************************************************************************)
C9_NormalizerUpdateOrder == [](C9_State) /\ [][C9_Step]_vars

\* the second iteration has denormalized with statistics that the first
\* iteration's minibatches moved away from those of the zero state
C9_Witness ==
    /\ args.use_value_normalization /\ args.ewa_weigth = <<1, 2>>
    /\ iteration = 2 /\ pc = "minibatch" /\ start > 0
    /\ mb_total >= 3
    /\ denorm # <<Zero, VarFloor>>
    /\ denorm # <<normalizer.mean, normalizer.var>>

(***************************************************************************)
(* SpecShuffle: the epochs of one iteration (lines 292-359) for every      *)
(* batch size up to ShuffleBatch and every num_minibatches up to the batch *)
(* size, without value normalization.                                      *)
(***************************************************************************)
InitShuffle ==
    /\ args \in {Setup([ArgsDefault EXCEPT
                          !.num_envs = 1, !.num_steps = ns,
                          !.total_timesteps = ns, !.num_minibatches = nm,
                          !.update_epochs = MaxEpochs,
                          !.use_value_normalization = FALSE]) :
                   ns \in 1..ShuffleBatch, nm \in 1..ShuffleBatch}
    /\ args.num_minibatches <= args.batch_size
    /\ pc = "epoch"
    /\ CtlIdle
    /\ normalizer = NormalizerUnbound /\ denorm = <<>>
    /\ b_returns = [i \in 1..args.batch_size |-> Zero]
    /\ b_inds = Arange(args.batch_size)
    /\ epoch = 0 /\ start = 0 /\ approx_kl = Zero /\ processed = <<>>
    /\ mb_count = 0 /\ mb_total = 0
    /\ RolloutIdle /\ GaeIdle /\ LossIdle

NextShuffle ==
    \/ ShuffleEpoch
    \/ Minibatch
    \/ KlCheck

SpecShuffle == InitShuffle /\ [][NextShuffle]_vars

\* how often sample i stands in the sequence held
Occurrences(held, i) == Cardinality({k \in 1..Len(held) : held[k] = i})

(***************************************************************************)
(* C4: within an epoch no sample is held by two minibatches (or twice by   *)
(* one), and when the epoch's minibatches are through, every sample of the *)
(* batch has been held exactly once.                                       *)
(***************************************************************************)
C4_EpochPartitionsBatch ==
    /\ pc \in {"minibatch", "kl_check"} =>
          \A i \in 0..(args.batch_size - 1) : Occurrences(processed, i) <= 1
    /\ pc = "kl_check" =>
          /\ Len(processed) = args.batch_size
          /\ \A i \in 0..(args.batch_size - 1) : Occurrences(processed, i) = 1

\* an epoch is through whose batch of 5 went, out of order, into minibatches of
\* 2, 2 and 1 samples (num_minibatches = 2)
C4_Witness ==
    /\ pc = "kl_check"
    /\ args.batch_size = 5 /\ args.num_minibatches = 2
    /\ mb_count = 3
    /\ b_inds # Arange(5)

(***************************************************************************)
(* SpecNorm: the script from its start to the end of its first minibatch,  *)
(* which is the normalizer's first update, with one minibatch per epoch.   *)
(***************************************************************************)
\* ewa_weigth: no memory, a half, 1 - 1e-5 and the default 0.999999
EwaColdSet == {Zero, <<1, 2>>, <<99999, 100000>>, <<999999, 1000000>>}

InitNorm ==
    /\ args \in {Setup([ArgsDefault EXCEPT
                          !.num_envs = 1, !.num_steps = ColdBatch,
                          !.total_timesteps = ColdBatch, !.num_minibatches = 1,
                          !.update_epochs = 1,
                          !.use_value_normalization = TRUE,
                          !.ewa_weigth = w]) : w \in EwaColdSet}
    /\ pc = "anneal"
    /\ iteration = 1 /\ step = 0 /\ global_step = 0
    /\ lr = args.learning_rate
    /\ normalizer = NormalizerInit
    /\ denorm = <<>> /\ b_returns = <<>> /\ b_inds = <<>>
    /\ epoch = 0 /\ start = 0 /\ approx_kl = Zero /\ processed = <<>>
    /\ mb_count = 0 /\ mb_total = 0
    /\ RolloutIdle /\ GaeIdle /\ LossIdle

NextNorm ==
    \/ Anneal
    \/ CollectRollout
    \/ EstimateAdvantages
    \/ ShuffleEpoch
    \/ Minibatch

SpecNorm == InitNorm /\ [][NextNorm]_vars

\* the population variance of a batch
BatchVar(b) ==
    RSub(RMean([i \in 1..Len(b) |-> RMul(b[i], b[i])]), RMul(RMean(b), RMean(b)))

(***************************************************************************)
(* C8: after the first update from the zero state the derived mean is the  *)
(* batch mean and the derived variance is the batch's population variance  *)
(* (at least the floor), so each target is                                 *)
(* (return - batch mean) / sqrt(batch variance), whatever ewa_weigth is.   *)
(***************************************************************************)
C8_ColdStartIsUnbiased ==
    (pc = "kl_check" /\ mb_total = 1) =>
        LET bv == IF RLe(BatchVar(b_returns), VarFloor) THEN VarFloor
                  ELSE BatchVar(b_returns)
        IN  /\ normalizer.mean = RMean(b_returns)
            /\ normalizer.var = bv
            /\ target_values =
                 [j \in 1..Len(processed) |->
                    Quot(RSub(b_returns[processed[j] + 1], RMean(b_returns)), bv)]

(***************************************************************************)
(* SpecRollout: the rollout loop (lines 195-214 and 231-259) across the    *)
(* iterations, with the episode statistics.  What the environment returns  *)
(* at a step is drawn; the update that follows a rollout (lines 261-379)   *)
(* is one step here, and touches nothing the rollout keeps.                *)
(***************************************************************************)
RolloutRewardSet == {0, 1}

RolloutArgs ==
    {a \in {Setup([ArgsDefault EXCEPT
                     !.num_envs = ne, !.num_steps = ns,
                     !.total_timesteps = ni * ne * ns]) :
               ne \in 1..MaxEnvs, ns \in 1..MaxSteps, ni \in 1..MaxIterations} :
        a.num_steps * a.num_iterations <= MaxEnvSteps}

\* lines 195-214
InitRollout ==
    /\ args \in RolloutArgs
    /\ pc = "anneal"
    /\ iteration = 1 /\ step = 0 /\ global_step = 0
    /\ lr = args.learning_rate
    /\ dones = [t \in 1..args.num_steps |-> Zeros(args.num_envs)]
    /\ next_done = Zeros(args.num_envs)
    /\ reward = <<>>
    /\ episode_rewards = Zeros(args.num_envs)
    /\ episode_lengths = Zeros(args.num_envs)
    /\ summary = <<>>
    /\ env_flags = <<Zeros(args.num_envs)>>
    /\ GaeIdle /\ TrainIdle /\ LossIdle

\* what line 236 stores in dones[step]: next_done as it stands before the step
DonesEntryAfterStep(before, after) == after
DonesEntry(before, after) == before

\* lines 255-256: the flagged slots of an accumulator go to zero
ResetAll(acc, done) == [s \in 1..Len(acc) |-> 0]
ResetFlagged(acc, done) == [s \in 1..Len(acc) |-> IF done[s] = 1 THEN 0 ELSE acc[s]]

\* np.mean(acc * next_done) (lines 252, 254)
FlaggedMean(acc, done) ==
    Norm(ISum([s \in 1..Len(acc) |-> acc[s] * done[s]]), Len(acc))

\* lines 232-259: one step of the rollout; rew and done are the rewards and the
\* termination-or-truncation flags envs.step returns
RolloutStep(rew, done) ==
    /\ pc = "rollout"
    /\ step < args.num_steps
    /\ global_step' = global_step + args.num_envs
    /\ dones' = [dones EXCEPT ![step + 1] = DonesEntry(next_done, done)]
    /\ next_done' = done
    /\ reward' = rew
    /\ LET lengths == [s \in 1..args.num_envs |-> episode_lengths[s] + 1]
           sums == [s \in 1..args.num_envs |-> episode_rewards[s] + rew[s]]
       IN  IF \E s \in 1..args.num_envs : done[s] = 1
           THEN /\ summary' = [episodic_return |-> FlaggedMean(sums, done),
                               episodic_length |-> FlaggedMean(lengths, done)]
                /\ episode_rewards' = ResetFlagged(sums, done)
                /\ episode_lengths' = ResetFlagged(lengths, done)
           ELSE /\ summary' = summary
                /\ episode_rewards' = sums
                /\ episode_lengths' = lengths
    /\ env_flags' = Append(env_flags, done)
    /\ step' = step + 1
    /\ pc' = IF step + 1 = args.num_steps THEN "gae" ELSE "rollout"
    /\ UNCHANGED <<args, iteration, lr, gaeVars, trainVars, lossVars>>

EnvStep ==
    \E rew \in SeqsOf(RolloutRewardSet, args.num_envs) :
        \E done \in SeqsOf({0, 1}, args.num_envs) : RolloutStep(rew, done)

\* lines 261-379 as one step, and the loops of lines 224 and 231: the next
\* iteration's rollout starts at step 0 from the flags the last step returned
UpdateNetworks ==
    /\ pc = "gae"
    /\ iteration' = iteration + 1
    /\ step' = 0
    /\ env_flags' = <<env_flags[Len(env_flags)]>>
    /\ pc' = IF iteration + 1 > args.num_iterations THEN "done" ELSE "anneal"
    /\ UNCHANGED <<args, global_step, lr, next_done, dones, reward,
                   episode_rewards, episode_lengths, summary, gaeVars,
                   trainVars, lossVars>>

NextRollout ==
    \/ Anneal
    \/ EnvStep
    \/ UpdateNetworks

SpecRollout == InitRollout /\ [][NextRollout]_vars

(***************************************************************************)
(* C1: in every rollout, dones[t] of each recorded step t is the done flag *)
(* the environment returned from the step before it, the last step of the  *)
(* iteration before included; dones[0] of the first iteration is 0.        *)
(***************************************************************************)
C1_DonesAreFlagsEnteringStep ==
    pc \in {"rollout", "gae"} =>
        /\ \A t \in 1..step : dones[t] = env_flags[t]
        /\ (iteration = 1 /\ step >= 1) => dones[1] = Zeros(args.num_envs)

\* the second iteration has recorded its first step, for which one slot was
\* flagged by the last step of the first iteration and another was not
C1_Witness ==
    /\ iteration = 2 /\ step >= 1 /\ pc \in {"rollout", "gae"}
    /\ args.num_envs = 2
    /\ dones[1] = <<1, 0>>
    /\ next_done = <<0, 1>>

C2_Step ==
    IF global_step' # global_step
    THEN LET flagged == {s \in 1..args.num_envs : next_done'[s] = 1}
             RECURSIVE SumOver(_, _)
             SumOver(f, S) ==
                 IF S = {} THEN 0
                 ELSE LET x == CHOOSE y \in S : TRUE
                      IN  f[x] + SumOver(f, S \ {x})
         IN  /\ \A s \in 1..args.num_envs :
                    IF s \in flagged
                    THEN episode_rewards'[s] = 0 /\ episode_lengths'[s] = 0
                    ELSE /\ episode_rewards'[s] = episode_rewards[s] + reward'[s]
                         /\ episode_lengths'[s] = episode_lengths[s] + 1
             /\ flagged # {} =>
                    /\ summary'.episodic_return[1] * args.num_envs =
                         summary'.episodic_return[2] *
                           SumOver([s \in 1..args.num_envs |->
                                      episode_rewards[s] + reward'[s]], flagged)
                    /\ summary'.episodic_length[1] * args.num_envs =
                         summary'.episodic_length[2] *
                           SumOver([s \in 1..args.num_envs |->
                                      episode_lengths[s] + 1], flagged)
             /\ flagged = {} => summary' = summary
    ELSE UNCHANGED <<episode_rewards, episode_lengths, summary>>

(***************************************************************************)
(* C2: at every environment step, a slot whose done flag comes back true   *)
(* has its accumulators at zero after the step, and the summary emitted is *)
(* the mean over the slots of the flagged slots' accumulators with this    *)
(* step's reward and this step counted in; a slot whose flag comes back    *)
(* false has its reward accumulator grown by the step's reward and its     *)
(* length by 1; and nothing else, the turn of an iteration included,       *)
(* changes the accumulators.                                               *)
(***************************************************************************)
C2_EpisodeAccumulators == [][C2_Step]_vars

\* in the second iteration a step has just ended an episode with a reward of 1
\* in one slot, while the other slot's episode runs on from the first iteration
C2_Witness ==
    /\ iteration = 2 /\ pc \in {"rollout", "gae"} /\ step >= 1
    /\ args.num_envs = 2
    /\ next_done = <<1, 0>> /\ reward = <<1, 1>>
    /\ episode_rewards[1] = 0 /\ episode_lengths[1] = 0
    /\ episode_lengths[2] > args.num_steps
    /\ episode_rewards[2] > 1
    /\ summary # <<>> /\ summary.episodic_return[1] > 0

====
